---- MODULE Spec2Model ----
(***************************************************************************)
(* Model of full_export.py (MATMAX WELLNESS financial model export):       *)
(* the publisher export_to_google_sheets, run as one process per run       *)
(* against a remote spreadsheet, and the table helpers transpose_dataframe  *)
(* and add_descriptions.                                                   *)
(***************************************************************************)
EXTENDS Integers, Sequences, FiniteSets, TLC

VARIABLES
    pc,                 \* position of the process in export_to_google_sheets
    runs,               \* number of processes started so far
    CREDENTIALS,        \* module global set at import (line 97)
    creds_file_exists,  \* whether full_export_creds.json exists on disk
    sink_titles,        \* titles of the sheets of the remote spreadsheet
    sink_cells,         \* cell contents of each sheet of the remote spreadsheet
    all_sheets,         \* the ordered sheet_name -> DataFrame mapping (line 417)
    existing_sheets,    \* the list read at line 413 and appended at line 500
    i,                  \* position of the for loop of line 477 in all_sheets
    values,             \* the value grid built at line 482
    successful_exports, \* counter of line 474
    result,             \* return value of export_to_google_sheets
    log,                \* calls of this run, in order: sink requests and sleeps
    start_titles,       \* sink_titles when this process started
    start_cells,        \* sink_cells when this process started
    start_file,         \* creds_file_exists when this process started
    prev_result,        \* result of the previous process
    df,                 \* the caller's table, argument of transpose_dataframe
    df_before,          \* df as it was when transpose_dataframe was called
    index_col,          \* argument of transpose_dataframe, None when omitted
    index_used,         \* index_col after lines 107-131
    transposed,         \* value returned by transpose_dataframe
    tpc,                \* "call" before transpose_dataframe runs, "done" after
    table,              \* the DataFrame object given to add_descriptions
    table_before,       \* table as it was before the first add_descriptions call
    descriptions,       \* argument of add_descriptions, the empty mapping when omitted
    returned,           \* value returned by the last add_descriptions call
    first_returned,     \* value returned by the first add_descriptions call
    raised,             \* exception raised by the last call, None when it returned
    calls               \* number of add_descriptions calls made on table

pubVars == <<pc, runs, CREDENTIALS, creds_file_exists, sink_titles, sink_cells,
             all_sheets, existing_sheets, i, values, successful_exports, result,
             log, start_titles, start_cells, start_file, prev_result>>
canonVars == <<df, df_before, index_col, index_used, transposed, tpc>>
annotVars == <<table, table_before, descriptions, returned, first_returned,
               raised, calls>>
vars == <<pubVars, canonVars, annotVars>>

-----------------------------------------------------------------------------
(* Bounds of the model *)

MaxEntries == 2     \* longest Table Registry
MaxRuns == 2        \* processes started one after another
GridRows == 2       \* rows of a sheet the model looks at
GridCols == 2       \* columns of a sheet the model looks at
MaxColumns == 3     \* most columns of a table given to transpose_dataframe
MaxTableRows == 2   \* most rows of a table given to transpose_dataframe
MaxPeriods == 2     \* most period columns of a table given to add_descriptions
MaxItems == 2       \* most rows of a table given to add_descriptions
MaxCalls == 2       \* add_descriptions calls on one table

Names == {"A", "B", "C"}    \* sheet names
None == "None"              \* Python's None
NaN == "NaN"                \* a missing DataFrame cell
Stale == "old"              \* what a sheet holds from an earlier export
Blank == ""                 \* an empty cell

\* The sequences of n distinct elements of S
RECURSIVE DistinctSeqs(_, _)
DistinctSeqs(S, n) ==
    IF n = 0 THEN {<<>>}
    ELSE UNION {{Append(s, x) : x \in S \ {s[k] : k \in DOMAIN s}} :
                s \in DistinctSeqs(S, n - 1)}

InSeq(x, s) == \E k \in DOMAIN s : s[k] = x

-----------------------------------------------------------------------------
(* Tables and the remote spreadsheet *)

\* Finished tables a registry entry may hold: a header-only table and a table
\* with one data row that has a missing cell.
SheetTables ==
    { [columns |-> <<"Item">>, rows |-> <<>>],
      [columns |-> <<"Item", "Y1">>, rows |-> << <<"Cash", NaN>> >>] }

Registries ==
    UNION {{[k \in 1..n |-> [sheet_name |-> ns[k], df |-> ts[k]]] :
            ns \in DistinctSeqs(Names, n), ts \in [1..n -> SheetTables]} :
           n \in 1..MaxEntries}

StaleGrid == [r \in 1..GridRows |-> [c \in 1..GridCols |-> Stale]]
BlankGrid == [r \in 1..GridRows |-> [c \in 1..GridCols |-> Blank]]

\* df.fillna('')
fillna(t) ==
    [t EXCEPT !.rows = [r \in DOMAIN t.rows |->
        [c \in DOMAIN t.rows[r] |->
            IF t.rows[r][c] = NaN THEN Blank ELSE t.rows[r][c]]]]

\* [df_clean.columns.tolist()] + df_clean.values.tolist()
to_values(t) == <<t.columns>> \o t.rows

\* the mapping walked from its last pair to its first
items_reversed(reg, k) == reg[Len(reg) + 1 - k]

\* for sheet_name, df in all_sheets.items(): the k-th pair
items(reg, k) == reg[k]

\* the membership test left out: every sheet is created
always_create(sheet_name, ledger) == TRUE

\* sheet_name not in existing_sheets
not_in_existing(sheet_name, ledger) == ~InSeq(sheet_name, ledger)

\* the sheet list not read: the ledger starts empty
titles_forgotten(S) == <<>>

\* The titles of the spreadsheet as the list of line 413
RECURSIVE titles_list(_)
titles_list(S) ==
    IF S = {} THEN <<>>
    ELSE LET x == CHOOSE y \in S : TRUE IN <<x>> \o titles_list(S \ {x})

\* spreadsheets.values.update(range='<sheet>!A1', valueInputOption='RAW'):
\* the cells the value grid covers take its values, every other cell of the
\* sheet keeps what it held.
values_update(cells, grid) ==
    [r \in 1..GridRows |-> [c \in 1..GridCols |->
        IF r \in DOMAIN grid /\ c \in DOMAIN grid[r] THEN grid[r][c] ELSE cells[r][c]]]

\* the delay left out
no_sleep(lg) == lg

\* time.sleep(1), recorded in the call log
time_sleep(lg) == Append(lg, [op |-> "sleep", title |-> "", ok |-> TRUE])

Request(op, title, ok) == [op |-> op, title |-> title, ok |-> ok]

-----------------------------------------------------------------------------
(* Credentials *)

EmptyDoc == "{}"        \* a JSON document Python treats as false
Doc == "service-account"

\* load_credentials(): env is GOOGLE_CREDS_JSON parsed (None when unset or
\* empty), file is the parsed credentials file (None when there is none)
load_credentials(env, file) ==
    IF env # None THEN env
    ELSE IF file # None THEN file
    ELSE None

\* the credentials check left out
credentials_unchecked(c) == FALSE

\* not CREDENTIALS
not_credentials(c) == c \in {None, EmptyDoc}

PyTrue == "True"        \* Python's True
PyFalse == "False"      \* Python's False

\* a handler that reports success
except_return_true == PyTrue

\* the value the except handler returns (line 537)
except_return == PyFalse

-----------------------------------------------------------------------------
(* The publisher: export_to_google_sheets, one process per run *)

NoTable == [columns |-> <<>>, rows |-> <<>>]

CanonIdle ==
    /\ df = NoTable
    /\ df_before = NoTable
    /\ index_col = None
    /\ index_used = None
    /\ transposed = NoTable
    /\ tpc = "idle"

NoMapping == <<>>

AnnotIdle ==
    /\ table = NoTable
    /\ table_before = NoTable
    /\ descriptions = NoMapping
    /\ returned = NoTable
    /\ first_returned = NoTable
    /\ raised = None
    /\ calls = 0

Init ==
    /\ pc = "idle"
    /\ runs = 0
    /\ CREDENTIALS = None
    /\ creds_file_exists = FALSE
    /\ sink_titles \in SUBSET Names
    /\ sink_cells \in [Names -> {StaleGrid, BlankGrid}]
    /\ \A n \in Names \ sink_titles : sink_cells[n] = BlankGrid
    /\ all_sheets \in Registries
    /\ existing_sheets = <<>>
    /\ i = 1
    /\ values = <<>>
    /\ successful_exports = 0
    /\ result = None
    /\ log = <<>>
    /\ start_titles = sink_titles
    /\ start_cells = sink_cells
    /\ start_file = FALSE
    /\ prev_result = None
    /\ CanonIdle
    /\ AnnotIdle

\* python full_export.py: the module is imported (CREDENTIALS is loaded from
\* the environment of this process) and export_to_google_sheets is entered.
StartProcess ==
    /\ pc \in {"idle", "returned"}
    /\ runs < MaxRuns
    /\ \E env \in {None, EmptyDoc, Doc}, file \in {None, EmptyDoc, Doc} :
          CREDENTIALS' = load_credentials(env, file)
    /\ runs' = runs + 1
    /\ pc' = "entry"
    /\ existing_sheets' = <<>>
    /\ i' = 1
    /\ values' = <<>>
    /\ successful_exports' = 0
    /\ result' = None
    /\ log' = <<>>
    /\ start_titles' = sink_titles
    /\ start_cells' = sink_cells
    /\ start_file' = creds_file_exists
    /\ prev_result' = result
    /\ UNCHANGED <<creds_file_exists, sink_titles, sink_cells, all_sheets, canonVars,
                   annotVars>>

\* lines 533-537: the handler of every exception raised inside the try block
Except ==
    /\ result' = except_return
    /\ pc' = "returned"

\* lines 267-269
NoCredentials ==
    /\ pc = "entry"
    /\ not_credentials(CREDENTIALS)
    /\ result' = PyFalse
    /\ pc' = "returned"
    /\ UNCHANGED <<runs, CREDENTIALS, creds_file_exists, sink_titles, sink_cells,
                   all_sheets, existing_sheets, i, values, successful_exports, log,
                   start_titles, start_cells, start_file, prev_result, canonVars,
                   annotVars>>

\* lines 272-275
SaveCredentials ==
    /\ pc = "entry"
    /\ ~not_credentials(CREDENTIALS)
    /\ creds_file_exists' = TRUE
    /\ pc' = "generate"
    /\ UNCHANGED <<runs, CREDENTIALS, sink_titles, sink_cells, all_sheets,
                   existing_sheets, i, values, successful_exports, result, log,
                   start_titles, start_cells, start_file, prev_result, canonVars,
                   annotVars>>

\* lines 278-409: the API client is built and the tables are produced
Generate ==
    /\ pc = "generate"
    /\ pc' = "get"
    /\ UNCHANGED <<runs, CREDENTIALS, creds_file_exists, sink_titles, sink_cells,
                   all_sheets, existing_sheets, i, values, successful_exports, result,
                   log, start_titles, start_cells, start_file, prev_result, canonVars,
                   annotVars>>

\* lines 278-409 when the credential setup or a table producer raises
GenerateRaises ==
    /\ pc = "generate"
    /\ Except
    /\ UNCHANGED <<runs, CREDENTIALS, creds_file_exists, sink_titles, sink_cells,
                   all_sheets, existing_sheets, i, values, successful_exports,
                   log, start_titles, start_cells, start_file, prev_result, canonVars,
                   annotVars>>

\* lines 412-414: the sheet list is read
GetSpreadsheet ==
    /\ pc = "get"
    /\ existing_sheets' = titles_list(sink_titles)
    /\ log' = Append(log, Request("get", "", TRUE))
    /\ pc' = "loop"
    /\ UNCHANGED <<runs, CREDENTIALS, creds_file_exists, sink_titles, sink_cells,
                   all_sheets, i, values, successful_exports, result,
                   start_titles, start_cells, start_file, prev_result, canonVars,
                   annotVars>>

\* line 412 when the sink rejects the request
GetRejected ==
    /\ pc = "get"
    /\ log' = Append(log, Request("get", "", FALSE))
    /\ Except
    /\ UNCHANGED <<runs, CREDENTIALS, creds_file_exists, sink_titles, sink_cells,
                   all_sheets, existing_sheets, i, values, successful_exports,
                   start_titles, start_cells, start_file, prev_result, canonVars,
                   annotVars>>

\* lines 477-485 and 503-504: the next entry, its value grid, create or update
ForEachSheet ==
    /\ pc = "loop"
    /\ i <= Len(all_sheets)
    /\ values' = to_values(fillna(items(all_sheets, i).df))
    /\ pc' = IF not_in_existing(items(all_sheets, i).sheet_name, existing_sheets)
             THEN "create" ELSE "update"
    /\ UNCHANGED <<runs, CREDENTIALS, creds_file_exists, sink_titles, sink_cells,
                   all_sheets, existing_sheets, i, successful_exports, result, log,
                   start_titles, start_cells, start_file, prev_result, canonVars,
                   annotVars>>

\* lines 486-500: addSheet accepted, the name joins existing_sheets
AddSheet ==
    /\ pc = "create"
    /\ LET sheet_name == items(all_sheets, i).sheet_name IN
         /\ sheet_name \notin sink_titles
         /\ sink_titles' = sink_titles \cup {sheet_name}
         /\ log' = Append(log, Request("create", sheet_name, TRUE))
         /\ existing_sheets' = Append(existing_sheets, sheet_name)
    /\ pc' = "sleep_create"
    /\ UNCHANGED <<runs, CREDENTIALS, creds_file_exists, sink_cells, all_sheets, i,
                   values, successful_exports, result,
                   start_titles, start_cells, start_file, prev_result, canonVars,
                   annotVars>>

\* lines 496-499 when the sink rejects the addSheet request
AddSheetRejected ==
    /\ pc = "create"
    /\ log' = Append(log, Request("create", items(all_sheets, i).sheet_name, FALSE))
    /\ Except
    /\ UNCHANGED <<runs, CREDENTIALS, creds_file_exists, sink_titles, sink_cells,
                   all_sheets, existing_sheets, i, values, successful_exports,
                   start_titles, start_cells, start_file, prev_result, canonVars,
                   annotVars>>

\* line 502
SleepAfterCreate ==
    /\ pc = "sleep_create"
    /\ log' = time_sleep(log)
    /\ pc' = "update"
    /\ UNCHANGED <<runs, CREDENTIALS, creds_file_exists, sink_titles, sink_cells,
                   all_sheets, existing_sheets, i, values, successful_exports, result,
                   start_titles, start_cells, start_file, prev_result, canonVars,
                   annotVars>>

\* lines 507-515: values.update accepted
UpdateValues ==
    /\ pc = "update"
    /\ LET sheet_name == items(all_sheets, i).sheet_name IN
         /\ sheet_name \in sink_titles
         /\ sink_cells' = [sink_cells EXCEPT
                              ![sheet_name] = values_update(sink_cells[sheet_name], values)]
         /\ log' = Append(log, Request("write", sheet_name, TRUE))
    /\ successful_exports' = successful_exports + 1
    /\ pc' = "sleep_update"
    /\ UNCHANGED <<runs, CREDENTIALS, creds_file_exists, sink_titles, all_sheets,
                   existing_sheets, i, values, result,
                   start_titles, start_cells, start_file, prev_result, canonVars,
                   annotVars>>

\* lines 507-512 when the sink rejects the values.update request
UpdateRejected ==
    /\ pc = "update"
    /\ log' = Append(log, Request("write", items(all_sheets, i).sheet_name, FALSE))
    /\ Except
    /\ UNCHANGED <<runs, CREDENTIALS, creds_file_exists, sink_titles, sink_cells,
                   all_sheets, existing_sheets, i, values, successful_exports,
                   start_titles, start_cells, start_file, prev_result, canonVars,
                   annotVars>>

\* line 518, then the loop moves to the next entry
SleepAfterUpdate ==
    /\ pc = "sleep_update"
    /\ log' = time_sleep(log)
    /\ i' = i + 1
    /\ pc' = "loop"
    /\ UNCHANGED <<runs, CREDENTIALS, creds_file_exists, sink_titles, sink_cells,
                   all_sheets, existing_sheets, values, successful_exports, result,
                   start_titles, start_cells, start_file, prev_result, canonVars,
                   annotVars>>

\* lines 520-531: the loop is over, the temporary file is removed, True
Finish ==
    /\ pc = "loop"
    /\ i > Len(all_sheets)
    /\ creds_file_exists' = FALSE
    /\ result' = PyTrue
    /\ pc' = "returned"
    /\ UNCHANGED <<runs, CREDENTIALS, sink_titles, sink_cells, all_sheets,
                   existing_sheets, i, values, successful_exports, log,
                   start_titles, start_cells, start_file, prev_result, canonVars,
                   annotVars>>

Next ==
    \/ StartProcess
    \/ NoCredentials
    \/ SaveCredentials
    \/ Generate
    \/ GenerateRaises
    \/ GetSpreadsheet
    \/ GetRejected
    \/ ForEachSheet
    \/ AddSheet
    \/ AddSheetRejected
    \/ SleepAfterCreate
    \/ UpdateValues
    \/ UpdateRejected
    \/ SleepAfterUpdate
    \/ Finish

Spec == Init /\ [][Next]_vars

-----------------------------------------------------------------------------
(* The canonicalizer: transpose_dataframe *)

\* A table is [columns, rows]; once an index is set it also has the field
\* index, the row labels.

ColumnNames == {"Year", "Item", "Product", "Revenue", "Cost"}
IndexValues == {"2024", "index"}

\* The cell of source row r and column c when it is no index value
Cell(r, c) == "r" \o ToString(r) \o "c" \o ToString(c)

\* The tables given to transpose_dataframe: distinct column names, one column
\* (kc) holding the values iv, every other cell its own token
InputTable(cols, kc, iv) ==
    [columns |-> cols,
     rows |-> [r \in DOMAIN iv |->
                 [c \in DOMAIN cols |-> IF c = kc THEN iv[r] ELSE Cell(r, c)]]]

SeqsUpTo(S, n) == UNION {[1..m -> S] : m \in 0..n}

ColPos(columns, name) == CHOOSE k \in DOMAIN columns : columns[k] = name

RemoveAt(s, k) == [j \in 1..(Len(s) - 1) |-> IF j < k THEN s[j] ELSE s[j + 1]]

\* lines 107-131 with only the fallback of line 131
choose_first_column(columns, given) ==
    IF given # None THEN given ELSE columns[1]

\* lines 107-131: the index column
choose_index_col(columns, given) ==
    IF given # None THEN given
    ELSE IF InSeq("Year", columns) THEN "Year"
    ELSE IF InSeq("Item", columns) THEN "Item"
    ELSE IF InSeq("Variable", columns) THEN "Variable"
    ELSE IF InSeq("Customer Segment", columns) THEN "Customer Segment"
    ELSE IF InSeq("Churn Factor", columns) THEN "Churn Factor"
    ELSE IF InSeq("Channel", columns) THEN "Channel"
    ELSE IF InSeq("Retention Strategy", columns) THEN "Retention Strategy"
    ELSE IF InSeq("Room", columns) THEN "Room"
    ELSE IF InSeq("Scenario", columns) THEN "Scenario"
    ELSE IF InSeq("Product", columns) THEN "Product"
    ELSE columns[1]

\* df_copy.set_index(index_col, inplace=True): the column leaves the columns
\* and its values become the row labels
set_index(t, name) ==
    LET k == ColPos(t.columns, name) IN
      [index |-> [r \in DOMAIN t.rows |-> t.rows[r][k]],
       columns |-> RemoveAt(t.columns, k),
       rows |-> [r \in DOMAIN t.rows |-> RemoveAt(t.rows[r], k)]]

\* df_copy.transpose(): row labels and column labels change places
transpose(t) ==
    [index |-> t.columns,
     columns |-> t.index,
     rows |-> [c \in DOMAIN t.columns |-> [r \in DOMAIN t.rows |-> t.rows[r][c]]]]

\* transposed.reset_index(inplace=True): the row labels become the first
\* column, named 'index', or 'level_0' when a column 'index' exists already
reset_index(t) ==
    LET label == IF InSeq("index", t.columns) THEN "level_0" ELSE "index" IN
      [columns |-> <<label>> \o t.columns,
       rows |-> [k \in DOMAIN t.rows |-> <<t.index[k]>> \o t.rows[k]]]

\* transposed.rename(columns={'index': 'Item'}, inplace=True)
rename_index_Item(t) ==
    [t EXCEPT !.columns = [c \in DOMAIN t.columns |->
        IF t.columns[c] = "index" THEN "Item" ELSE t.columns[c]]]

\* lines 99-143
transpose_dataframe(t, given) ==
    rename_index_Item(reset_index(transpose(set_index(t,
        choose_index_col(t.columns, given)))))

PubIdle ==
    /\ pc = "idle"
    /\ runs = 0
    /\ CREDENTIALS = None
    /\ creds_file_exists = FALSE
    /\ sink_titles = {}
    /\ sink_cells = [n \in Names |-> BlankGrid]
    /\ all_sheets = <<>>
    /\ existing_sheets = <<>>
    /\ i = 1
    /\ values = <<>>
    /\ successful_exports = 0
    /\ result = None
    /\ log = <<>>
    /\ start_titles = {}
    /\ start_cells = sink_cells
    /\ start_file = FALSE
    /\ prev_result = None

\* A caller holds a table and is about to call transpose_dataframe, with an
\* explicit index column of the table or with none.
InitCanon ==
    /\ PubIdle
    /\ \E n \in 1..MaxColumns :
         \E cols \in DistinctSeqs(ColumnNames, n), kc \in 1..n,
            iv \in SeqsUpTo(IndexValues, MaxTableRows) :
              df = InputTable(cols, kc, iv)
    /\ df_before = df
    /\ index_col \in {None} \cup {df.columns[c] : c \in DOMAIN df.columns}
    /\ index_used = None
    /\ transposed = NoTable
    /\ tpc = "call"
    /\ AnnotIdle

\* lines 99-143: the call works on a copy of df and returns the new table
Transpose ==
    /\ tpc = "call"
    /\ index_used' = choose_index_col(df.columns, index_col)
    /\ transposed' = transpose_dataframe(df, index_col)
    /\ tpc' = "done"
    /\ UNCHANGED <<df, df_before, index_col, pubVars, annotVars>>

NextCanon == Transpose

SpecCanon == InitCanon /\ [][NextCanon]_vars

-----------------------------------------------------------------------------
(* The annotator: add_descriptions *)

Periods == {"2024", "2025", "2026"}
ItemNames == {"Total Revenue", "Cash", "cash"}

\* Texts of the mapping of lines 307-314
DescriptionText(item) ==
    IF item = "Total Revenue" THEN "Sum of all revenue streams"
    ELSE "Cash and cash equivalents"

\* The mappings given as descriptions: the empty one (the default of lines
\* 149-150) and those over keys of lines 307-314
Lookups == {[k \in K |-> DescriptionText(k)] : K \in SUBSET {"Total Revenue", "Cash"}}

\* A table as transpose_dataframe returns it: the column Item with the row
\* labels, then one column per period
CanonicalTable(labels, periods) ==
    [columns |-> <<"Item">> \o periods,
     rows |-> [r \in DOMAIN labels |->
                 <<labels[r]>> \o [c \in DOMAIN periods |-> Cell(r, c)]]]

CanonicalTables ==
    UNION {{CanonicalTable(labels, periods) :
            labels \in DistinctSeqs(ItemNames, n), periods \in DistinctSeqs(Periods, m)} :
           n \in 0..MaxItems, m \in 0..MaxPeriods}

InsertAt(s, k, x) ==
    [j \in 1..(Len(s) + 1) |-> IF j < k THEN s[j] ELSE IF j = k THEN x ELSE s[j - 1]]

\* df.insert(1, 'Description', ''): a new second column, every cell ''
insert_Description(t) ==
    [columns |-> InsertAt(t.columns, 2, "Description"),
     rows |-> [r \in DOMAIN t.rows |-> InsertAt(t.rows[r], 2, Blank)]]

\* lines 158-161 without the else branch
describe_known_only(item, d) ==
    IF item \in DOMAIN d THEN d[item] ELSE Blank

\* lines 158-161: the text of the mapping, or 'Financial metric'
describe(item, d) ==
    IF item \in DOMAIN d THEN d[item] ELSE "Financial metric"

\* lines 156-161: df.at[idx, 'Description'] is set for every row from row['Item']
fill_descriptions(t, d) ==
    LET ic == ColPos(t.columns, "Item")
        dc == ColPos(t.columns, "Description")
    IN [t EXCEPT !.rows = [r \in DOMAIN t.rows |->
            [t.rows[r] EXCEPT ![dc] = describe(t.rows[r][ic], d)]]]

\* df.insert raises ValueError when the frame has a column Description already
insert_raises(t) == InSeq("Description", t.columns)

\* lines 145-163 when insert does not raise: df after the call, which is also
\* the object returned
add_descriptions(t, d) == fill_descriptions(insert_Description(t), d)

\* A caller holds a table with no Description column and a mapping.
InitAnnot ==
    /\ PubIdle
    /\ CanonIdle
    /\ table \in CanonicalTables
    /\ table_before = table
    /\ descriptions \in Lookups
    /\ returned = NoTable
    /\ first_returned = NoTable
    /\ raised = None
    /\ calls = 0

\* lines 145-163: the column is inserted into df itself, filled, df returned
AddDescriptions ==
    /\ calls < MaxCalls
    /\ ~insert_raises(table)
    /\ table' = add_descriptions(table, descriptions)
    /\ returned' = table'
    /\ first_returned' = IF calls = 0 THEN table' ELSE first_returned
    /\ raised' = None
    /\ calls' = calls + 1
    /\ UNCHANGED <<table_before, descriptions, pubVars, canonVars>>

\* line 153 raises: nothing is returned and df is as it was
AddDescriptionsRaises ==
    /\ calls < MaxCalls
    /\ insert_raises(table)
    /\ raised' = "ValueError"
    /\ returned' = NoTable
    /\ calls' = calls + 1
    /\ UNCHANGED <<table, table_before, descriptions, first_returned, pubVars, canonVars>>

NextAnnot ==
    \/ AddDescriptions
    \/ AddDescriptionsRaises

SpecAnnot == InitAnnot /\ [][NextAnnot]_vars

-----------------------------------------------------------------------------
(* What the call log and the sink say about a run *)

IsRequest(e) == e.op \in {"create", "write"}

\* Position of a sheet name in the Table Registry
Pos(name) == CHOOSE k \in DOMAIN all_sheets : all_sheets[k].sheet_name = name

\* The value grid of the registry entry at position k
GridOf(k) == to_values(fillna(all_sheets[k].df))

\* A sheet that holds the grid and nothing else
ExactGrid(grid) ==
    [r \in 1..GridRows |-> [c \in 1..GridCols |->
        IF r \in DOMAIN grid /\ c \in DOMAIN grid[r] THEN grid[r][c] ELSE Blank]]

\* Every cell of the grid is in the sheet
Covers(cells, grid) ==
    \A r \in DOMAIN grid : \A c \in DOMAIN grid[r] : cells[r][c] = grid[r][c]

\* Entry k has been written in this run and the sink holds its grid
Written(k) ==
    LET name == all_sheets[k].sheet_name IN
      /\ name \in sink_titles
      /\ Covers(sink_cells[name], GridOf(k))
      /\ \E q \in DOMAIN log : log[q] = Request("write", name, TRUE)

\* C1: the create and write requests of a run follow registry order: a request
\* for an earlier entry comes before every request for a later entry, and for
\* one entry the create request comes before the write request.
C1_RegistryOrder ==
    \A p, q \in DOMAIN log :
        (p < q /\ IsRequest(log[p]) /\ IsRequest(log[q])) =>
            \/ Pos(log[p].title) < Pos(log[q].title)
            \/ /\ log[p].title = log[q].title
               /\ log[p].op = "create"
               /\ log[q].op = "write"

C1_Witness ==
    /\ pc = "returned"
    /\ result = PyTrue
    /\ \E p, q \in DOMAIN log :
          /\ p < q
          /\ log[p].op = "create"
          /\ log[q].op = "write"
          /\ log[p].title # log[q].title
          /\ Pos(log[q].title) = 2
          /\ log[q].title \in start_titles

\* C2: a create request is issued only for a name that is not in the ledger:
\* never for a sheet that existed at the sink when the run started, and at
\* most once per name in a run.
C2_NoDuplicateSheet ==
    /\ \A p \in DOMAIN log :
          log[p].op = "create" =>
              /\ log[p].title \notin start_titles
              /\ \A q \in 1..(p - 1) :
                    ~(log[q].op = "create" /\ log[q].title = log[p].title)
    /\ pc = "create" => ~InSeq(all_sheets[i].sheet_name, existing_sheets)

C2_Witness ==
    /\ pc = "returned"
    /\ \E p, q \in DOMAIN log :
          /\ log[p] = Request("create", log[p].title, TRUE)
          /\ log[q] = Request("write", log[q].title, TRUE)
          /\ log[q].title \in start_titles

\* C3: when the sink rejects the create or write request of the entry at
\* position k, every earlier entry is written at the sink, no request for a
\* later entry is issued, nothing follows the rejected request and the run
\* returns False.
C3_PartialFailure ==
    \A p \in DOMAIN log :
        (IsRequest(log[p]) /\ ~log[p].ok) =>
            LET k == Pos(log[p].title) IN
              /\ p = Len(log)
              /\ pc = "returned"
              /\ result = PyFalse
              /\ \A j \in 1..(k - 1) : Written(j)
              /\ \A q \in DOMAIN log :
                    IsRequest(log[q]) => Pos(log[q].title) <= k

C3_Witness ==
    /\ pc = "returned"
    /\ Len(all_sheets) >= 2
    /\ \E p \in DOMAIN log :
          /\ log[p] = Request("write", all_sheets[2].sheet_name, FALSE)
          /\ Written(1)
          /\ sink_cells[all_sheets[1].sheet_name] # start_cells[all_sheets[1].sheet_name]

\* C4: a run that follows a run that returned True, and so starts with every
\* registry name at the sink, issues no create request and leaves the sheets
\* and their cells as the first run left them.
C4_IdempotentRerun ==
    (runs >= 2 /\ prev_result = PyTrue) =>
        /\ \A k \in DOMAIN all_sheets : all_sheets[k].sheet_name \in start_titles
        /\ \A p \in DOMAIN log : log[p].op # "create"
        /\ sink_titles = start_titles
        /\ sink_cells = start_cells

C4_Witness ==
    /\ runs = 2
    /\ prev_result = PyTrue
    /\ pc = "returned"
    /\ result = PyTrue
    /\ Len(all_sheets) >= 2
    /\ \A k \in DOMAIN all_sheets :
          \E q \in DOMAIN log : log[q] = Request("write", all_sheets[k].sheet_name, TRUE)

\* C5: after the write for an entry completes, the sheet holds exactly the
\* entry's value grid, whatever it held before.
C5_FullOverwrite ==
    pc = "sleep_update" =>
        sink_cells[all_sheets[i].sheet_name] = ExactGrid(GridOf(i))

\* C6: when a run that wrote the temporary credential file has returned, on
\* the success path or on the failure path, the file does not exist.
C6_CredentialFileRemoved ==
    (pc = "returned" /\ CREDENTIALS = Doc) => ~creds_file_exists

\* C7: with no credentials the run returns False without any sink request and
\* without creating the temporary file: the sink and the file are as they were
\* when the run started.
C7_NoCredentialsAbort ==
    (pc # "idle" /\ CREDENTIALS \in {None, EmptyDoc}) =>
        /\ pc \in {"entry", "returned"}
        /\ pc = "returned" => result = PyFalse
        /\ log = <<>>
        /\ sink_titles = start_titles
        /\ sink_cells = start_cells
        /\ creds_file_exists = start_file

C7_Witness ==
    /\ pc = "returned"
    /\ CREDENTIALS = None
    /\ result = PyFalse
    /\ runs = 2
    /\ prev_result = PyTrue
    /\ sink_titles # {}
    /\ ~creds_file_exists

\* C8: every create or write request in the call log is followed by a sleep
\* before anything else is called, so no two requests reach the sink without
\* a delay between them.
C8_CourtesyDelays ==
    \A p \in 1..(Len(log) - 1) :
        IsRequest(log[p]) => log[p + 1].op = "sleep"

C8_Witness ==
    /\ pc = "returned"
    /\ result = PyTrue
    /\ \E p \in DOMAIN log : log[p].op = "create"
    /\ Cardinality({p \in DOMAIN log : log[p].op = "write"}) >= 2

-----------------------------------------------------------------------------
(* What transpose_dataframe returns *)

Priority ==
    <<"Year", "Item", "Variable", "Customer Segment", "Churn Factor", "Channel",
      "Retention Strategy", "Room", "Scenario", "Product">>

\* The positions of the priority list whose name is a column of the table
Present(columns) == {k \in DOMAIN Priority : InSeq(Priority[k], columns)}

\* C9: with no explicit index column the index is the candidate earliest in
\* the priority list among those that are columns of the table, wherever it
\* stands, and the first column only when no candidate is a column; an
\* explicit index column is used as given.
C9_IndexSelection ==
    tpc = "done" =>
        index_used =
            IF index_col # None THEN index_col
            ELSE IF Present(df.columns) # {}
                 THEN Priority[CHOOSE k \in Present(df.columns) :
                                  \A m \in Present(df.columns) : k <= m]
                 ELSE df.columns[1]

C9_Witness ==
    /\ tpc = "done"
    /\ index_col = None
    /\ df.columns = <<"Revenue", "Product", "Item">>
    /\ index_used = "Item"
    /\ Len(df.rows) = 2

\* The columns of the source table other than the index column, in order
Others == RemoveAt(df.columns, ColPos(df.columns, index_used))

\* The result has one row per non-index column and one column per source row
\* after the first; labels, headers and cells are those of the source.
Transposed ==
    /\ Len(transposed.rows) = Len(Others)
    /\ Len(transposed.columns) = Len(df.rows) + 1
    /\ \A k \in DOMAIN Others :
          /\ Len(transposed.rows[k]) = Len(df.rows) + 1
          /\ transposed.rows[k][1] = Others[k]
          /\ \A j \in DOMAIN df.rows :
                transposed.rows[k][j + 1] = df.rows[j][ColPos(df.columns, Others[k])]
    /\ df = df_before

\* C10: a table with R rows, an index column and C other columns becomes a
\* table with C rows and R+1 columns whose first column is named Item; row i
\* is labelled with the i-th non-index column, the header of column j+1 is the
\* index value of source row j, every cell is the source cell, and the source
\* table is as it was.
C10_Canonical ==
    tpc = "done" =>
        /\ Transposed
        /\ transposed.columns[1] = "Item"
        /\ \A j \in DOMAIN df.rows :
              transposed.columns[j + 1] = df.rows[j][ColPos(df.columns, index_used)]

\* The same holds of every table none of whose index values is 'index'.
C10_WithoutIndexLabel ==
    (tpc = "done" /\ \A j \in DOMAIN df.rows :
                        df.rows[j][ColPos(df.columns, index_used)] # "index")
        => /\ Transposed
           /\ transposed.columns[1] = "Item"
           /\ \A j \in DOMAIN df.rows :
                 transposed.columns[j + 1] = df.rows[j][ColPos(df.columns, index_used)]

-----------------------------------------------------------------------------
(* What add_descriptions returns *)

\* C11: a second add_descriptions call on the table the first call annotated
\* completes without error and returns a table equal to the first result.
C11_AnnotateTwice ==
    calls = 2 =>
        /\ raised = None
        /\ returned = first_returned

\* C12: add_descriptions on a Canonical Table returns a table with the column
\* Description at position 1, right after Item; every row's Description is
\* non-empty, the mapping's text when the row's Item is a key of the mapping
\* (exact match) and 'Financial metric' otherwise; the rows, their order and
\* every other column are those of the table given.
C12_Annotated ==
    calls >= 1 =>
        /\ calls = 1 => raised = None
        /\ first_returned.columns =
              <<"Item", "Description">> \o Tail(table_before.columns)
        /\ Len(first_returned.rows) = Len(table_before.rows)
        /\ \A r \in DOMAIN table_before.rows :
              LET src == table_before.rows[r]
                  out == first_returned.rows[r]
              IN /\ Len(out) = Len(src) + 1
                 /\ out[1] = src[1]
                 /\ out[2] # ""
                 /\ src[1] \in DOMAIN descriptions => out[2] = descriptions[src[1]]
                 /\ src[1] \notin DOMAIN descriptions => out[2] = "Financial metric"
                 /\ \A c \in 2..Len(src) : out[c + 1] = src[c]

C12_Witness ==
    /\ calls = 1
    /\ raised = None
    /\ table_before.columns = <<"Item", "2024", "2025">>
    /\ Len(table_before.rows) = 2
    /\ table_before.rows[1][1] = "Cash"
    /\ table_before.rows[2][1] = "cash"
    /\ DOMAIN descriptions = {"Total Revenue", "Cash"}
    /\ returned.rows[1][2] = "Cash and cash equivalents"
    /\ returned.rows[2][2] = "Financial metric"
    /\ returned = table

====
